---- MODULE Spec2Model ----
(***************************************************************************)
(* A model of the codingexpress CLI generator (the script embedded in      *)
(* src/README.md from line 644 on): the OpenAPI type mappers, the CRUD     *)
(* classifier, the make:* commands, the route registrar and the            *)
(* OpenAPI-driven generation of controllers, validators and routes.        *)
(*                                                                         *)
(* JavaScript strings are TLA+ strings; TLC evaluates Len, \o, Head, Tail  *)
(* and SubSeq on them, so prefixes, suffixes, case conversion, substring   *)
(* search and replacement are computed character by character as the       *)
(* script's regular expressions and String methods compute them.           *)
(***************************************************************************)
EXTENDS Integers, Sequences, FiniteSets, TLC

(***************************************************************************)
(* String primitives (String.prototype methods and the regex fragments     *)
(* the script uses).                                                       *)
(***************************************************************************)
UpperAlpha == "ABCDEFGHIJKLMNOPQRSTUVWXYZ"
LowerAlpha == "abcdefghijklmnopqrstuvwxyz"
Digits == "0123456789"

CharAt(s, i) == SubSeq(s, i, i)

CharsOf(s) == {CharAt(s, i) : i \in 1..Len(s)}

UpperChars == CharsOf(UpperAlpha)

LowerChars == CharsOf(LowerAlpha)

AlnumChars == UpperChars \cup LowerChars \cup CharsOf(Digits)

\* c.toLowerCase() and c.toUpperCase() of one letter, as tables.
LowerOf == [c \in UpperChars |-> CharAt(LowerAlpha, CHOOSE i \in 1..26 : CharAt(UpperAlpha, i) = c)]

UpperOf == [c \in LowerChars |-> CharAt(UpperAlpha, CHOOSE i \in 1..26 : CharAt(LowerAlpha, i) = c)]

LowerChar(c) == IF c \in UpperChars THEN LowerOf[c] ELSE c

UpperChar(c) == IF c \in LowerChars THEN UpperOf[c] ELSE c

RECURSIVE toLowerCase(_)
toLowerCase(s) == IF s = "" THEN "" ELSE LowerChar(Head(s)) \o toLowerCase(Tail(s))

\* s.charAt(0).toUpperCase() + s.slice(1)
UpperFirst(s) == IF s = "" THEN "" ELSE UpperChar(Head(s)) \o Tail(s)

\* s.charAt(0).toLowerCase() + s.slice(1)
LowerFirst(s) == IF s = "" THEN "" ELSE LowerChar(Head(s)) \o Tail(s)

startsWith(s, p) == Len(s) >= Len(p) /\ SubSeq(s, 1, Len(p)) = p

endsWith(s, p) == Len(s) >= Len(p) /\ SubSeq(s, Len(s) - Len(p) + 1, Len(s)) = p

\* The positions at which sub occurs in s.  The operands are bound once (t)
\* and a position is compared in full only where the first character fits.
Occurrences(s, sub) ==
  IF sub = "" THEN 1..(Len(s) + 1)
  ELSE UNION {{i \in 1..(Len(t.s) - Len(t.sub) + 1) :
                 SubSeq(t.s, i, i) = t.c /\ SubSeq(t.s, i, i + Len(t.sub) - 1) = t.sub}
              : t \in {[s |-> s, sub |-> sub, c |-> SubSeq(sub, 1, 1)]}}

includes(s, sub) == Occurrences(s, sub) # {}

MinOf(S) == CHOOSE i \in S : \A j \in S : i <= j

MaxOf(S) == CHOOSE i \in S : \A j \in S : j <= i

\* s.replace(pat, rep) with a string pattern: the first occurrence only.
replaceFirst(s, pat, rep) ==
  IF ~includes(s, pat) THEN s
  ELSE LET i == MinOf(Occurrences(s, pat))
       IN SubSeq(s, 1, i - 1) \o rep \o SubSeq(s, i + Len(pat), Len(s))

IsAlnum(c) == c \in AlnumChars

\* s.replace(/[^a-zA-Z0-9]/g, "")
RECURSIVE stripNonAlnum(_)
stripNonAlnum(s) ==
  IF s = "" THEN ""
  ELSE (IF IsAlnum(Head(s)) THEN Head(s) ELSE "") \o stripNonAlnum(Tail(s))

\* s.replace(/[^a-zA-Z0-9-]/g, "")
RECURSIVE stripNonAlnumDash(_)
stripNonAlnumDash(s) ==
  IF s = "" THEN ""
  ELSE (IF IsAlnum(Head(s)) \/ Head(s) = "-" THEN Head(s) ELSE "") \o stripNonAlnumDash(Tail(s))

\* /^(a|b|c)/i.test(s)
PrefixI(s, alts) == LET l == toLowerCase(s) IN \E p \in alts : startsWith(l, p)

\* /^(a|b).*(x|y)$/i.test(s): the prefix and the suffix do not overlap.
PrefixSuffixI(s, pres, sufs) ==
  LET l == toLowerCase(s)
  IN \E p \in pres : \E q \in sufs :
       /\ Len(s) >= Len(p) + Len(q)
       /\ startsWith(l, p)
       /\ endsWith(l, q)

(***************************************************************************)
(* CRUD classifier.                                                        *)
(***************************************************************************)
CrudKinds == {"index", "store", "show", "update", "destroy", "custom"}

\* The structural fallback reads the method and whether the route has a "{".
identifyCrudType_noname(operationId, httpMethod, route) ==
  IF operationId = "" THEN "custom"
  ELSE IF httpMethod = "get" /\ ~includes(route, "{") THEN "index"
  ELSE IF httpMethod = "post" /\ ~includes(route, "{") THEN "store"
  ELSE IF httpMethod = "get" /\ includes(route, "{") THEN "show"
  ELSE IF httpMethod = "put" \/ httpMethod = "patch" THEN "update"
  ELSE IF httpMethod = "delete" THEN "destroy"
  ELSE "custom"

identifyCrudType_listfirst(operationId, httpMethod, route) ==
  IF operationId = "" THEN "custom"
  ELSE IF PrefixI(operationId, {"create", "add", "store"}) THEN "store"
  ELSE IF PrefixI(operationId, {"update", "patch", "edit"}) THEN "update"
  ELSE IF PrefixI(operationId, {"delete", "remove", "destroy"}) THEN "destroy"
  ELSE IF PrefixI(operationId, {"list", "get", "find", "index", "search"}) THEN "index"
  ELSE IF PrefixSuffixI(operationId, {"get", "find", "show", "retrieve"}, {"byid", "one"}) THEN "show"
  ELSE identifyCrudType_noname(operationId, httpMethod, route)

identifyCrudType_anywhere(operationId, httpMethod, route) ==
  IF operationId = "" THEN "custom"
  ELSE IF PrefixI(operationId, {"create", "add", "store"}) THEN "store"
  ELSE IF PrefixI(operationId, {"update", "patch", "edit"}) THEN "update"
  ELSE IF PrefixI(operationId, {"delete", "remove", "destroy"}) THEN "destroy"
  ELSE IF PrefixSuffixI(operationId, {"get", "find", "show", "retrieve"}, {"byid", "one"}) THEN "show"
  ELSE IF \E w \in {"list", "get", "find", "index", "search"} : includes(toLowerCase(operationId), w) THEN "index"
  ELSE identifyCrudType_noname(operationId, httpMethod, route)

identifyCrudType_postparam(operationId, httpMethod, route) ==
  IF operationId = "" THEN "custom"
  ELSE IF PrefixI(operationId, {"create", "add", "store"}) THEN "store"
  ELSE IF PrefixI(operationId, {"update", "patch", "edit"}) THEN "update"
  ELSE IF PrefixI(operationId, {"delete", "remove", "destroy"}) THEN "destroy"
  ELSE IF PrefixSuffixI(operationId, {"get", "find", "show", "retrieve"}, {"byid", "one"}) THEN "show"
  ELSE IF PrefixI(operationId, {"list", "get", "find", "index", "search"}) THEN "index"
  ELSE IF httpMethod = "get" /\ ~includes(route, "{") THEN "index"
  ELSE IF httpMethod = "post" THEN "store"
  ELSE IF httpMethod = "get" /\ includes(route, "{") THEN "show"
  ELSE IF httpMethod = "put" \/ httpMethod = "patch" THEN "update"
  ELSE IF httpMethod = "delete" THEN "destroy"
  ELSE "custom"

\* An absent operationId is the empty string: !operationId holds of both.
identifyCrudType(operationId, httpMethod, route) ==
  IF operationId = "" THEN "custom"
  ELSE IF PrefixI(operationId, {"create", "add", "store"}) THEN "store"
  ELSE IF PrefixI(operationId, {"update", "patch", "edit"}) THEN "update"
  ELSE IF PrefixI(operationId, {"delete", "remove", "destroy"}) THEN "destroy"
  ELSE IF PrefixSuffixI(operationId, {"get", "find", "show", "retrieve"}, {"byid", "one"}) THEN "show"
  ELSE IF PrefixI(operationId, {"list", "get", "find", "index", "search"}) THEN "index"
  ELSE IF httpMethod = "get" /\ ~includes(route, "{") THEN "index"
  ELSE IF httpMethod = "post" /\ ~includes(route, "{") THEN "store"
  ELSE IF httpMethod = "get" /\ includes(route, "{") THEN "show"
  ELSE IF httpMethod = "put" \/ httpMethod = "patch" THEN "update"
  ELSE IF httpMethod = "delete" THEN "destroy"
  ELSE "custom"

(***************************************************************************)
(* Type mappers.  A property's missing type or format is "".               *)
(***************************************************************************)
MongooseTypeMap ==
  [t \in {"string", "number", "integer", "boolean", "array", "object"} |->
     CASE t = "string" -> "String"
       [] t = "number" -> "Number"
       [] t = "integer" -> "Number"
       [] t = "boolean" -> "Boolean"
       [] t = "array" -> "[Schema.Types.Mixed]"
       [] t = "object" -> "Schema.Types.Mixed"]

\* typeMap[openApiType] || "String"
openApiTypeToMongooseType(openApiType) ==
  IF openApiType \in DOMAIN MongooseTypeMap THEN MongooseTypeMap[openApiType] ELSE "String"

PrismaTypeMap ==
  [t \in {"string", "integer", "number", "boolean"} |->
     CASE t = "string" -> "String"
       [] t = "integer" -> "Int"
       [] t = "number" -> "Float"
       [] t = "boolean" -> "Boolean"]

openApiTypeToPrismaType_anydate(prop) ==
  IF prop.format = "date-time" THEN "DateTime"
  ELSE IF prop.type \in DOMAIN PrismaTypeMap THEN PrismaTypeMap[prop.type] ELSE "Json"

openApiTypeToPrismaType(prop) ==
  IF prop.type = "string" /\ prop.format = "date-time" THEN "DateTime"
  ELSE IF prop.type \in DOMAIN PrismaTypeMap THEN PrismaTypeMap[prop.type] ELSE "Json"

(***************************************************************************)
(* The project directory.  A run state st holds the files (path -> text),  *)
(* the messages printed so far and the exit code (0 while the process      *)
(* runs; after process.exit(1) nothing more is done).  Paths are relative  *)
(* to the project root; EOL is "\n".                                       *)
(***************************************************************************)
EOL == "\n"

NoFiles == [p \in {} |-> ""]

exists(st, path) == path \in DOMAIN st.fs

\* A printed message: what it reports, about which path or name, and (for the
\* registrar) the route file.
Msg(kind, arg, file) == [kind |-> kind, arg |-> arg, file |-> file]

say(st, msg) == IF st.exit # 0 THEN st ELSE [st EXCEPT !.out = Append(@, msg)]

\* process.exit(1)
exit1(st) == IF st.exit # 0 THEN st ELSE [st EXCEPT !.exit = 1]

\* An exception that nothing catches rejects the promise of main: the rest of
\* the command does not run and the process ends with exit code 1.
throw(st, what) ==
  IF st.exit # 0 THEN st
  ELSE [st EXCEPT !.out = Append(@, Msg("uncaught", what, "")), !.exit = 1, !.fault = 0]

\* fs.writeFileSync(path, content).  st.fault numbers the write of this run
\* that the file system refuses (0: none).
writeFile(st, path, content) ==
  IF st.exit # 0 THEN st
  ELSE IF st.fault = 1 THEN throw(st, path)
  ELSE [st EXCEPT !.fs = (path :> content) @@ @,
                  !.fault = IF @ = 0 THEN 0 ELSE @ - 1]

\* A directory is a path that ends with "/"; "./" is the project directory.
Dirname(path) ==
  IF ~includes(path, "/") THEN "./" ELSE SubSeq(path, 1, MaxOf(Occurrences(path, "/")))

\* fs.mkdirSync(dir, { recursive: true })
mkdir(st, dir) ==
  IF st.exit # 0 THEN st
  ELSE LET dirs == {"./"} \cup {SubSeq(dir, 1, i) : i \in Occurrences(dir, "/")}
       IN [st EXCEPT !.fs = @ @@ [q \in dirs |-> ""]]

\* fs.appendFileSync(path, text): creates the file when it is missing.
appendFile(st, path, text) ==
  writeFile(st, path, (IF exists(st, path) THEN st.fs[path] ELSE "") \o text)

\* The file is written whether it exists or not.
createFile_overwrite(st, filePath, content) ==
  say(writeFile(mkdir(st, Dirname(filePath)), filePath, content), Msg("created", filePath, ""))

\* The directory of a file that exists exists: mkdirSync acts only in the
\* branch that writes.
createFile(st, filePath, content) ==
  IF exists(st, filePath)
  THEN say(st, Msg("skipped", filePath, ""))
  ELSE say(writeFile(mkdir(st, Dirname(filePath)), filePath, content), Msg("created", filePath, ""))

(***************************************************************************)
(* Templates.  The fixed text of a template is shortened; every            *)
(* interpolated name stands where the script puts it.                      *)
(***************************************************************************)
CustomBody == "// TODO: Implement this method\n    try {\n      res.status(501).json({ message: 'Not Implemented' });\n    } catch (error) {\n      next(error);\n    }"

CrudMessage(crudType, modelName) ==
  CASE crudType = "index" -> "'" \o modelName \o " list retrieved successfully'"
    [] crudType = "store" -> "'" \o modelName \o " created successfully'"
    [] crudType = "show" -> "'" \o modelName \o " retrieved successfully'"
    [] crudType = "update" -> "'" \o modelName \o " updated successfully'"
    [] crudType = "destroy" -> "'" \o modelName \o " deleted successfully'"

getControllerMethodBody(crudType, modelName, orm) ==
  LET modelNameLower == LowerFirst(modelName)
  IN IF orm \in {"mongoose", "prisma"} /\ crudType \in {"index", "store", "show", "update", "destroy"}
     THEN (IF orm = "mongoose"
           THEN "try { const Model = await getModel(); /* " \o crudType \o " */ "
           ELSE "try { /* " \o crudType \o " */ await prisma." \o modelNameLower \o "; ")
          \o "res.json({ message: " \o CrudMessage(crudType, modelName) \o " }); } catch (error) { next(error); }"
     ELSE CustomBody

FiveMethods(modelName, orm) ==
  "  async index(req, res, next) {\n    " \o getControllerMethodBody("index", modelName, orm) \o "\n  }\n\n"
  \o "  async store(req, res, next) {\n    " \o getControllerMethodBody("store", modelName, orm) \o "\n  }\n\n"
  \o "  async show(req, res, next) {\n    " \o getControllerMethodBody("show", modelName, orm) \o "\n  }\n\n"
  \o "  async update(req, res, next) {\n    " \o getControllerMethodBody("update", modelName, orm) \o "\n  }\n\n"
  \o "  async destroy(req, res, next) {\n    " \o getControllerMethodBody("destroy", modelName, orm) \o "\n  }\n"

getMongooseControllerTemplate(controllerClassName, modelName) ==
  "const getModel = require('../models/" \o modelName \o "');\n\nclass " \o controllerClassName \o " {\n"
  \o FiveMethods(modelName, "mongoose")
  \o "}\n\nmodule.exports = new " \o controllerClassName \o "();\n"

getPrismaControllerTemplate(controllerClassName, modelName) ==
  "const { prisma } = require('../../config/database');\n\nclass " \o controllerClassName \o " {\n"
  \o FiveMethods(modelName, "prisma")
  \o "}\n\nmodule.exports = new " \o controllerClassName \o "();\n"

getControllerTemplate(modelName, orm) ==
  LET controllerClassName == modelName \o "Controller"
  IN IF orm = "prisma"
     THEN getPrismaControllerTemplate(controllerClassName, modelName)
     ELSE getMongooseControllerTemplate(controllerClassName, modelName)

DefaultModelFields == "{\n    name: { type: String, required: true, trim: true },\n    // Add more fields here\n  }"

getMongooseModelTemplate(name, conn, fields) ==
  "const mongoose = require('mongoose');\nconst { Schema } = mongoose;\n"
  \o "const { getConnection } = require('../../config/database');\n\n"
  \o "const " \o toLowerCase(name) \o "Schema = new Schema(\n  " \o fields \o ",\n  { timestamps: true }\n);\n\n"
  \o "module.exports = async () => {\n  const conn = await getConnection('" \o conn \o "');\n"
  \o "  return conn.model('" \o name \o "', " \o toLowerCase(name) \o "Schema);\n};\n"

getPrismaModelTemplate(name) ==
  "model " \o name \o " {\n  id        Int      @id @default(autoincrement())\n  name      String\n\n"
  \o "  createdAt DateTime @default(now())\n  updatedAt DateTime @updatedAt\n}"

getPrismaUserModelTemplate ==
  "\nmodel User {\n  id                  Int       @id @default(autoincrement())\n"
  \o "  email               String?   @unique\n  createdAt DateTime @default(now())\n}"

getPrismaSchemaTemplate ==
  "generator client {\n  provider = \"prisma-client-js\"\n}\n\ndatasource db {\n  provider = \"postgresql\"\n}\n"

\* controllerName.replace("Controller", "")
getRouteTemplate(name, controllerName) ==
  LET modelName == replaceFirst(controllerName, "Controller", "")
      v == toLowerCase(modelName) \o "Validator"
  IN "const express = require('express');\nconst router = express.Router();\n"
     \o "const " \o controllerName \o " = require('../controllers/" \o controllerName \o "');\n"
     \o "const authMiddleware = require('../middleware/authMiddleware');\n"
     \o "const " \o v \o " = require('../validators/" \o modelName \o "Validator');\n\n"
     \o "router.get('/', authMiddleware, " \o controllerName \o ".index);\n"
     \o "router.post('/', authMiddleware, " \o v \o ".store, " \o controllerName \o ".store);\n"
     \o "router.get('/:id', authMiddleware, " \o controllerName \o ".show);\n"
     \o "router.put('/:id', authMiddleware, " \o v \o ".update, " \o controllerName \o ".update);\n"
     \o "router.delete('/:id', authMiddleware, " \o controllerName \o ".destroy);\n\n"
     \o "module.exports = router;\n"

getValidatorTemplate(modelName) ==
  "const { body } = require('express-validator');\n\n"
  \o "const " \o toLowerCase(modelName) \o "Validator = {\n  store: [ body('name').notEmpty().isString().trim() ],\n"
  \o "  update: [ body('name').optional().isString().trim() ],\n};\n\n"
  \o "module.exports = " \o toLowerCase(modelName) \o "Validator;\n"

Hook == "// [Coding express-cli-hook] - Add new routes here"

getMainRouteTemplateWithAuth ==
  "const express = require('express');\nconst router = express.Router();\n\n"
  \o "const authRoutes = require('./authRoutes');\n\n"
  \o "router.get('/', (req, res) => {\n  res.json({ message: 'Welcome to the Coding express API root!' });\n});\n\n"
  \o "router.use('/auth', authRoutes);\n\n"
  \o Hook \o "\n\nmodule.exports = router;\n"

(***************************************************************************)
(* Route registrar.                                                        *)
(***************************************************************************)
MainRouter == "app/routes/index.js"

RouteImport(resourceName, routeFileName) ==
  "const " \o resourceName \o "Routes = require('./" \o routeFileName \o "');"

RouteUsage(resourceName) ==
  "router.use('/" \o resourceName \o "', " \o resourceName \o "Routes);"

\* "Automatically registered '<name>' routes in app/routes/index.js"
MsgRegistered(resourceName, routeFileName) == Msg("registered", resourceName, routeFileName)

\* "Route for '<name>' already registered."
MsgAlready(resourceName, routeFileName) == Msg("already", resourceName, routeFileName)

\* "Error: Could not auto-register routes. Please import and use the new route ..."
MsgManual(resourceName, routeFileName) == Msg("manual", resourceName, routeFileName)

registerRoute_always(st, resourceName, routeFileName) ==
  IF ~exists(st, MainRouter) THEN say(st, MsgManual(resourceName, routeFileName))
  ELSE LET newRouteImport == RouteImport(resourceName, routeFileName)
           newRouteUsage == RouteUsage(resourceName)
       IN say(writeFile(st, MainRouter,
                        replaceFirst(st.fs[MainRouter], Hook,
                                     newRouteImport \o "\n" \o newRouteUsage \o "\n\n" \o Hook)),
              MsgRegistered(resourceName, routeFileName))

\* readFileSync throws when the router file is missing, writeFileSync when the
\* write is refused: the catch block prints the manual instructions.
registerRoute(st, resourceName, routeFileName) ==
  IF ~exists(st, MainRouter) THEN say(st, MsgManual(resourceName, routeFileName))
  ELSE LET mainRouterContent == st.fs[MainRouter]
           newRouteImport == RouteImport(resourceName, routeFileName)
           newRouteUsage == RouteUsage(resourceName)
       IN IF ~includes(mainRouterContent, newRouteImport)
          THEN IF st.fault = 1 /\ st.exit = 0
               THEN say([st EXCEPT !.fault = 0], MsgManual(resourceName, routeFileName))
               ELSE say(writeFile(st, MainRouter,
                                  replaceFirst(mainRouterContent, Hook,
                                               newRouteImport \o "\n" \o newRouteUsage \o "\n\n" \o Hook)),
                        MsgRegistered(resourceName, routeFileName))
          ELSE say(st, MsgAlready(resourceName, routeFileName))

(***************************************************************************)
(* make:* generators.                                                      *)
(***************************************************************************)
ConfigPath == "expresso.json"

PrismaSchema == "prisma/schema.prisma"

\* JSON.stringify({ appName, orm }, null, 2)
ConfigText(appName, orm) ==
  "{\n  \"appName\": \"" \o appName \o "\",\n  \"orm\": \"" \o orm \o "\"\n}"

\* JSON.parse(text).orm, for the texts ConfigText writes with a project name
\* of letters, digits, "-" and "_".
RECURSIVE UpToQuote(_)
UpToQuote(s) == IF s = "" \/ Head(s) = "\"" THEN "" ELSE Head(s) \o UpToQuote(Tail(s))

ConfigOrm(text) ==
  LET key == "\"orm\": \""
  IN IF ~includes(text, key) THEN ""
     ELSE UpToQuote(SubSeq(text, MinOf(Occurrences(text, key)) + Len(key), Len(text)))

createController(st, name, orm) ==
  LET modelName == replaceFirst(name, "Controller", "")
      s1 == createFile(st, "app/controllers/" \o name \o "Controller.js", getControllerTemplate(modelName, orm))
  IN createFile(s1, "app/validators/" \o modelName \o "Validator.js", getValidatorTemplate(modelName))

\* options.connection is "" when the option is absent.
createModel(st, name, orm, connection) ==
  IF orm = "mongoose"
  THEN createFile(st, "app/models/" \o name \o ".js",
                  getMongooseModelTemplate(name, IF connection = "" THEN "default" ELSE connection,
                                           DefaultModelFields))
  ELSE IF orm = "prisma"
  THEN IF ~exists(st, PrismaSchema)
       THEN exit1(say(st, Msg("error", "prisma/schema.prisma not found.", "")))
       ELSE say(appendFile(st, PrismaSchema, EOL \o EOL \o getPrismaModelTemplate(name)),
                Msg("appended", name, PrismaSchema))
  ELSE st

\* routeFileName is "" for the call createRouteFile(name, null, projectPath).
createRouteFile(st, name, routeFileName) ==
  LET controllerName == UpperFirst(name) \o "Controller"
      actualRouteFileName == IF routeFileName # "" THEN routeFileName ELSE name \o "Routes.js"
      s1 == createFile(st, "app/routes/" \o actualRouteFileName, getRouteTemplate(name, controllerName))
  IN registerRoute(s1, name, actualRouteFileName)

createResource(st, name, orm) ==
  LET s1 == createModel(st, name, orm, "")
      s2 == createController(s1, name, orm)
      routeFileName == toLowerCase(name) \o "Routes.js"
      s3 == createRouteFile(s2, toLowerCase(name), routeFileName)
  IN say(s3, Msg("done", name, ""))

\* "Error: The provided name '<name>' is invalid."
MsgInvalidName(name) == Msg("invalid", name, "")

\* "Error: Project not initialized or command is not run from the project root."
MsgNotRoot == Msg("notroot", "", "")

\* One call handleMakeCommand(type, name, options); optOrm and connection are
\* "" when the option is absent.
handleMakeCommand(st, type, name, optOrm, connection) ==
  LET sanitized == stripNonAlnum(name)
      capitalizedName == UpperFirst(sanitized)
  IN IF sanitized = "" THEN say(st, MsgInvalidName(name))
     ELSE IF ~exists(st, ConfigPath) THEN exit1(say(st, MsgNotRoot))
     ELSE LET orm == IF optOrm # "" THEN optOrm ELSE ConfigOrm(st.fs[ConfigPath])
          IN CASE type = "resource" -> createResource(st, capitalizedName, orm)
               [] type = "model" -> createModel(st, capitalizedName, orm, connection)
               [] type = "controller" -> createController(st, capitalizedName, orm)
               [] type = "route" ->
                    LET sanitized2 == stripNonAlnumDash(name)
                    IN IF sanitized2 # "" THEN createRouteFile(st, toLowerCase(sanitized2), "")
                       ELSE say(st, MsgInvalidName(name))
               [] OTHER -> say(st, Msg("unknowntype", type, ""))

\* The loop ends at the first name that is not valid.
RECURSIVE makeNames_stop(_, _, _, _, _)
makeNames_stop(st, type, names, optOrm, connection) ==
  IF names = <<>> THEN st
  ELSE IF stripNonAlnum(Head(names)) = "" THEN say(st, MsgInvalidName(Head(names)))
  ELSE makeNames_stop(handleMakeCommand(st, type, Head(names), optOrm, connection),
                      type, Tail(names), optOrm, connection)

\* for (const name of names) await handleMakeCommand(type, name, makeOptions)
RECURSIVE makeNames(_, _, _, _, _)
makeNames(st, type, names, optOrm, connection) ==
  IF names = <<>> THEN st
  ELSE makeNames(handleMakeCommand(st, type, Head(names), optOrm, connection),
                 type, Tail(names), optOrm, connection)

\* main, case "make".
mainMake(st, type, names, optOrm, connection) ==
  IF type = "" \/ names = <<>>
  THEN exit1(say(st, Msg("error", "Please provide the type and at least one name", "")))
  ELSE makeNames(st, type, names, optOrm, connection)

\* content.lastIndexOf("}") as a position counted from 1 (0: not found).
lastIndexOf(content, sub) ==
  IF includes(content, sub) THEN MaxOf(Occurrences(content, sub)) ELSE 0

\* The controller is rewritten before the route file is looked for.
updateResource_halfway(st, resourceName, methodName) ==
  LET capitalizedName == UpperFirst(resourceName)
      controllerPath == "app/controllers/" \o capitalizedName \o "Controller.js"
      routePath == "app/routes/" \o toLowerCase(capitalizedName) \o "Routes.js"
  IN IF ~exists(st, controllerPath) THEN say(st, Msg("notfound", controllerPath, ""))
     ELSE LET s1 == writeFile(st, controllerPath,
                              "\n  async " \o methodName \o "(req, res, next) { res.status(501); }\n"
                              \o st.fs[controllerPath])
          IN IF ~exists(s1, routePath) THEN say(s1, Msg("notfound", routePath, ""))
             ELSE say(appendFile(s1, routePath, EOL \o "\nrouter.get('/" \o toLowerCase(methodName) \o "');"),
                      Msg("added", methodName, routePath))

\* update:resource does not read the project config.
updateResource(st, resourceName, methodName) ==
  LET capitalizedName == UpperFirst(resourceName)
      controllerName == capitalizedName \o "Controller"
      controllerPath == "app/controllers/" \o controllerName \o ".js"
      routePath == "app/routes/" \o toLowerCase(capitalizedName) \o "Routes.js"
      s0 == say(st, Msg("info", "Updating resource", resourceName))
  IN IF ~exists(s0, controllerPath) THEN say(s0, Msg("notfound", controllerPath, ""))
     ELSE IF ~exists(s0, routePath) THEN say(s0, Msg("notfound", routePath, ""))
     ELSE LET newMethod == "\n  async " \o methodName
                           \o "(req, res, next) {\n    // TODO: Implement " \o methodName
                           \o " logic\n    try {\n      res.status(501).json({ message: 'Not Implemented' });\n    } catch (error) {\n      next(error);\n    }\n  }\n"
              controllerContent == s0.fs[controllerPath]
              lastBraceIndex == lastIndexOf(controllerContent, "}")
              s1 == writeFile(s0, controllerPath,
                              SubSeq(controllerContent, 1, lastBraceIndex - 1) \o newMethod
                              \o SubSeq(controllerContent, MaxOf({lastBraceIndex, 1}), Len(controllerContent)))
              s2 == say(s1, Msg("added", methodName, controllerPath))
              newRoute == "\nrouter.get('/" \o toLowerCase(methodName) \o "', " \o controllerName
                          \o "." \o methodName \o ");"
              s3 == appendFile(s2, routePath, EOL \o newRoute)
          IN say(s3, Msg("added", methodName, routePath))

\* The first two pieces of resourceArg.split(".").
RECURSIVE UpToDot(_)
UpToDot(s) == IF s = "" \/ Head(s) = "." THEN "" ELSE Head(s) \o UpToDot(Tail(s))

\* main, case "update".
mainUpdate(st, feature, resourceArg) ==
  IF feature = "resource"
  THEN IF resourceArg = "" \/ ~includes(resourceArg, ".")
       THEN exit1(say(st, Msg("error", "Please provide the resource and method name", resourceArg)))
       ELSE LET resourceName == UpToDot(resourceArg)
                methodName == UpToDot(SubSeq(resourceArg, Len(resourceName) + 2, Len(resourceArg)))
            IN updateResource(st, resourceName, methodName)
  ELSE say(st, Msg("unknowntype", feature, ""))

(***************************************************************************)
(* init: the core files and the fixed authentication files.                *)
(***************************************************************************)
writeProjectConfig(st, appName, orm) ==
  say(writeFile(st, ConfigPath, ConfigText(appName, orm)), Msg("created", ConfigPath, ""))

\* directories.forEach(mkdirSync)
RECURSIVE mkdirs(_, _)
mkdirs(st, dirs) == IF dirs = <<>> THEN st ELSE mkdirs(mkdir(st, Head(dirs)), Tail(dirs))

createProjectStructure(st, orm) ==
  LET directories == <<"app/controllers/", "app/middleware/", "app/routes/", "app/validators/",
                       "config/", "public/", ".vscode/">>
                     \o (IF orm = "mongoose" THEN <<"app/models/">> ELSE <<>>)
                     \o (IF orm = "prisma" THEN <<"prisma/">> ELSE <<>>)
  IN say(mkdirs(mkdir(say(st, Msg("info", "Creating project directory", "")), "./"), directories),
         Msg("info", "Directories created.", ""))

createCoreFiles(st, appName, orm) ==
  LET s1 == writeProjectConfig(st, appName, orm)
      s2 == createFile(s1, "package.json", "package.json of " \o appName \o " for " \o orm)
      s3 == createFile(s2, "server.js", "server.js for " \o orm)
      s4 == createFile(s3, MainRouter, getMainRouteTemplateWithAuth)
      s5 == createFile(s4, "app/middleware/errorHandler.js", "errorHandler for " \o orm)
      s6 == createFile(s5, ".env", "PORT=3000\n")
      s7 == createFile(s6, ".gitignore", "node_modules\n.env\n")
      s8 == createFile(s7, "config/database.js", "database config for " \o orm)
      s9 == createFile(s8, "README.md", "# " \o appName)
  IN IF orm = "prisma" THEN createFile(s9, PrismaSchema, getPrismaSchemaTemplate) ELSE s9

AuthControllerText(orm) ==
  "class AuthController { /* " \o (IF orm = "mongoose" THEN "mongoose" ELSE "prisma")
    \o " */ }\nmodule.exports = new AuthController();\n"

AuthUserModelText == "const userSchema = new Schema({ email, phone, password, otp });"

AuthEnvContent == "\nJWT_SECRET=your-super-secret-key\nCORS_ORIGIN=*\n"

\* readFileSync of a missing prisma/schema.prisma throws out of scaffoldAuth
\* (uncaught: the process ends with exit code 1).
scaffoldAuth(st, orm) ==
  LET s1 == createFile(st, "app/controllers/AuthController.js", AuthControllerText(orm))
      s2 == IF orm = "mongoose" THEN createFile(s1, "app/models/User.js", AuthUserModelText)
            ELSE IF ~exists(s1, PrismaSchema) THEN exit1(s1)
            ELSE IF ~includes(s1.fs[PrismaSchema], "model User")
            THEN say(appendFile(s1, PrismaSchema, EOL \o getPrismaUserModelTemplate),
                     Msg("appended", "User", PrismaSchema))
            ELSE s1
      s3 == createFile(s2, "app/routes/authRoutes.js", "authRoutes template")
      s4 == createFile(s3, "app/middleware/authMiddleware.js", "authMiddleware template")
      s5 == createFile(s4, "app/validators/authValidator.js", "authValidator template")
  IN appendFile(s5, ".env", AuthEnvContent)

(***************************************************************************)
(* OpenAPI generation.  A document holds its schemas and its paths in the  *)
(* order of the file (the order for..in visits the keys):                  *)
(*   schema    [name, type, hasProps, props, required]                     *)
(*   property  [name, type, format]                                        *)
(*   path item [route, ops], operation [method, operationId, tags, summary]*)
(* A missing string member is "", a missing tags list is << >>.            *)
(***************************************************************************)
\* String.prototype.padEnd(n)
RECURSIVE padEnd(_, _)
padEnd(s, n) == IF Len(s) >= n THEN s ELSE padEnd(s \o " ", n)

\* items.join(sep)
RECURSIVE join(_, _)
join(items, sep) ==
  IF items = <<>> THEN ""
  ELSE IF Len(items) = 1 THEN items[1]
  ELSE items[1] \o sep \o join(Tail(items), sep)

RECURSIVE MongooseFields(_, _)
MongooseFields(props, required) ==
  IF props = <<>> THEN ""
  ELSE LET prop == Head(props)
           type == openApiTypeToMongooseType(prop.type)
           req == IF prop.name \in required THEN ", required: true" ELSE ""
           trim == IF prop.type = "string" THEN ", trim: true" ELSE ""
       IN "\n    " \o prop.name \o ": { type: " \o type \o req \o trim \o " },"
          \o MongooseFields(Tail(props), required)

RECURSIVE PrismaFields(_, _)
PrismaFields(props, required) ==
  IF props = <<>> THEN ""
  ELSE LET prop == Head(props)
           type == openApiTypeToPrismaType(prop)
           optional == IF prop.name \in required THEN "" ELSE "?"
       IN (IF toLowerCase(prop.name) = "id" THEN ""
           ELSE "\n  " \o padEnd(prop.name, 12) \o type \o optional)
          \o PrismaFields(Tail(props), required)

PrismaModelBlock(schemaName, modelFields) ==
  "model " \o schemaName \o " {\n  id          Int      @id @default(autoincrement())\n  "
  \o modelFields \o "\n\n  createdAt   DateTime @default(now())\n  updatedAt   DateTime @updatedAt\n}"

RECURSIVE ModelsLoop(_, _, _)
ModelsLoop(st, schemas, orm) ==
  IF schemas = <<>> THEN st
  ELSE LET schema == Head(schemas)
           s1 == IF schema.type # "object" \/ ~schema.hasProps THEN st
                 ELSE IF orm = "mongoose"
                 THEN createFile(st, "app/models/" \o schema.name \o ".js",
                                 getMongooseModelTemplate(schema.name, "default",
                                   "{" \o MongooseFields(schema.props, schema.required) \o "\n  }"))
                 ELSE IF orm = "prisma"
                 THEN say(appendFile(st, PrismaSchema,
                                     EOL \o EOL \o PrismaModelBlock(schema.name,
                                                     PrismaFields(schema.props, schema.required))),
                          Msg("appended", schema.name, PrismaSchema))
                 ELSE st
       IN ModelsLoop(s1, Tail(schemas), orm)

generateModelsFromSpec(st, doc, orm) ==
  IF doc.schemas = <<>> THEN say(st, Msg("info", "No schemas found in spec. Skipping model creation.", ""))
  ELSE ModelsLoop(st, doc.schemas, orm)

ValidatorTypeMap ==
  [t \in {"string", "integer", "number", "boolean"} |->
     CASE t = "string" -> "isString" [] t = "integer" -> "isInt"
       [] t = "number" -> "isFloat" [] t = "boolean" -> "isBoolean"]

\* storeChain.slice(1).join("") of one property.
StoreChainTail(prop, required) ==
  (IF prop.name \in required THEN ".notEmpty().withMessage('" \o prop.name \o " is required')" ELSE "")
  \o (IF prop.type \in DOMAIN ValidatorTypeMap
      THEN "." \o ValidatorTypeMap[prop.type] \o "().withMessage('" \o prop.name \o " must be a " \o prop.type \o "')"
      ELSE "")
  \o (IF prop.type = "string" /\ prop.format = "email"
      THEN ".isEmail().withMessage('Invalid email format').normalizeEmail()" ELSE "")
  \o (IF prop.type = "string" THEN ".trim()" ELSE "")

StoreRules(props, required) ==
  [k \in 1..Len(props) |-> "  body('" \o props[k].name \o "')" \o StoreChainTail(props[k], required)]

UpdateRules(props, required) ==
  [k \in 1..Len(props) |-> "  body('" \o props[k].name \o "').optional()" \o StoreChainTail(props[k], required)]

\* schema is << >> when components.schemas has no such key, <<s>> otherwise.
generateValidatorFromSpec(st, resourceName, schema) ==
  IF schema = <<>> \/ ~schema[1].hasProps THEN st
  ELSE LET sc == schema[1]
           v == toLowerCase(resourceName) \o "Validator"
       IN createFile(st, "app/validators/" \o resourceName \o "Validator.js",
            "const { body } = require('express-validator');\n\nconst " \o v \o " = {\n  store: [\n"
            \o join(StoreRules(sc.props, sc.required), ",\n") \o "\n  ],\n  update: [\n"
            \o join(UpdateRules(sc.props, sc.required), ",\n") \o "\n  ],\n};\n\nmodule.exports = " \o v \o ";")

\* spec.components?.schemas?.[name]
FindSchema(doc, name) ==
  LET hits == {k \in 1..Len(doc.schemas) : doc.schemas[k].name = name}
  IN IF hits = {} THEN <<>> ELSE <<doc.schemas[MaxOf(hits)]>>

\* route.split("/")[1] || ""
RECURSIVE UpToSlash(_)
UpToSlash(s) == IF s = "" \/ Head(s) = "/" THEN "" ELSE Head(s) \o UpToSlash(Tail(s))

SecondPiece(route) ==
  IF ~includes(route, "/") THEN ""
  ELSE UpToSlash(SubSeq(route, MinOf(Occurrences(route, "/")) + 1, Len(route)))

\* pathDetails.<method>?.tags?.[0]
FirstTag(pathItem, method) ==
  LET hits == {k \in 1..Len(pathItem.ops) : pathItem.ops[k].method = method}
  IN IF hits = {} THEN ""
     ELSE LET op == pathItem.ops[MinOf(hits)] IN IF op.tags = <<>> THEN "" ELSE op.tags[1]

\* resources[capitalizedName].paths[route] = pathDetails
AddToGroup(groups, name, pathItem) ==
  IF \E k \in 1..Len(groups) : groups[k].name = name
  THEN [k \in 1..Len(groups) |->
          IF groups[k].name = name THEN [groups[k] EXCEPT !.paths = Append(@, pathItem)] ELSE groups[k]]
  ELSE Append(groups, [name |-> name, paths |-> <<pathItem>>])

RECURSIVE GroupPaths(_, _)
GroupPaths(groups, paths) ==
  IF paths = <<>> THEN groups
  ELSE LET pathDetails == Head(paths)
           resourceNameGuess == stripNonAlnum(SecondPiece(pathDetails.route))
           resourceName == IF FirstTag(pathDetails, "get") # "" THEN FirstTag(pathDetails, "get")
                           ELSE IF FirstTag(pathDetails, "post") # "" THEN FirstTag(pathDetails, "post")
                           ELSE resourceNameGuess
       IN IF resourceNameGuess = "" THEN GroupPaths(groups, Tail(paths))
          ELSE GroupPaths(AddToGroup(groups, UpperFirst(resourceName), pathDetails), Tail(paths))

\* route.replace(/{/g, ":").replace(/}/g, "")
RECURSIVE expressRouteOf(_)
expressRouteOf(route) ==
  IF route = "" THEN ""
  ELSE (IF Head(route) = "{" THEN ":" ELSE IF Head(route) = "}" THEN "" ELSE Head(route))
       \o expressRouteOf(Tail(route))

validatorMiddleware_always(schema, crudType, validatorName) ==
  IF schema # <<>> THEN validatorName \o "." \o crudType \o ", " ELSE ""

validatorMiddleware(schema, crudType, validatorName) ==
  IF schema # <<>> /\ (crudType = "store" \/ crudType = "update")
  THEN validatorName \o "." \o crudType \o ", "
  ELSE ""

\* One operation of the inner loop: the text it adds to the controller
\* methods and to the route entries.
OpMethodText(operation, route, singularName, orm) ==
  IF operation.operationId = "" THEN ""
  ELSE "\n  /**\n   * "
       \o (IF operation.summary # "" THEN operation.summary ELSE operation.operationId)
       \o "\n   */\n  async " \o operation.operationId \o "(req, res, next) {\n    "
       \o getControllerMethodBody(identifyCrudType(operation.operationId, operation.method, route),
                                  singularName, orm)
       \o "\n  }\n"

OpRouteEntry(operation, route, schema, validatorName, controllerName) ==
  IF operation.operationId = "" THEN ""
  ELSE "router." \o operation.method \o "('" \o expressRouteOf(route) \o "', "
       \o validatorMiddleware(schema, identifyCrudType(operation.operationId, operation.method, route),
                              validatorName)
       \o controllerName \o "." \o operation.operationId \o ");\n"

RECURSIVE OpsMethods(_, _, _, _)
OpsMethods(ops, route, singularName, orm) ==
  IF ops = <<>> THEN ""
  ELSE OpMethodText(Head(ops), route, singularName, orm) \o OpsMethods(Tail(ops), route, singularName, orm)

RECURSIVE OpsEntries(_, _, _, _, _)
OpsEntries(ops, route, schema, validatorName, controllerName) ==
  IF ops = <<>> THEN ""
  ELSE OpRouteEntry(Head(ops), route, schema, validatorName, controllerName)
       \o OpsEntries(Tail(ops), route, schema, validatorName, controllerName)

RECURSIVE PathsMethods(_, _, _)
PathsMethods(paths, singularName, orm) ==
  IF paths = <<>> THEN ""
  ELSE OpsMethods(Head(paths).ops, Head(paths).route, singularName, orm)
       \o PathsMethods(Tail(paths), singularName, orm)

RECURSIVE PathsEntries(_, _, _, _)
PathsEntries(paths, schema, validatorName, controllerName) ==
  IF paths = <<>> THEN ""
  ELSE OpsEntries(Head(paths).ops, Head(paths).route, schema, validatorName, controllerName)
       \o PathsEntries(Tail(paths), schema, validatorName, controllerName)

\* The body of the loop over the groups, for one group.
EmitResource(st, doc, group, orm) ==
  LET resourceName == group.name
      singularName == IF endsWith(resourceName, "s")
                      THEN SubSeq(resourceName, 1, Len(resourceName) - 1) ELSE resourceName
      lowerCaseResource == LowerFirst(singularName)
      controllerName == singularName \o "Controller"
      routeFileName == lowerCaseResource \o "Routes.js"
      validatorName == lowerCaseResource \o "Validator"
      schema == FindSchema(doc, singularName)
      s1 == IF schema # <<>> THEN generateValidatorFromSpec(st, singularName, schema) ELSE st
      controllerMethods == PathsMethods(group.paths, singularName, orm)
      routeEntries == PathsEntries(group.paths, schema, validatorName, controllerName)
      modelImport == IF orm = "mongoose"
                     THEN "const getModel = require('../models/" \o singularName \o "');"
                     ELSE "const { prisma } = require('../../config/database');"
      s2 == createFile(s1, "app/controllers/" \o controllerName \o ".js",
                       modelImport \o "\n\nclass " \o controllerName \o " {" \o controllerMethods
                       \o "\n}\n\nmodule.exports = new " \o controllerName \o "();")
      validatorImport == IF schema # <<>>
                         THEN "const " \o validatorName \o " = require('../validators/"
                              \o singularName \o "Validator');"
                         ELSE "// TODO: Create and import validator for this resource"
      s3 == createFile(s2, "app/routes/" \o routeFileName,
                       "const express = require('express');\nconst router = express.Router();\nconst "
                       \o controllerName \o " = require('../controllers/" \o controllerName \o "');\n"
                       \o validatorImport \o "\n\n" \o routeEntries \o "\nmodule.exports = router;")
  IN registerRoute(s3, lowerCaseResource, routeFileName)

RECURSIVE ResourcesLoop(_, _, _, _)
ResourcesLoop(st, doc, groups, orm) ==
  IF groups = <<>> THEN st
  ELSE ResourcesLoop(EmitResource(st, doc, Head(groups), orm), doc, Tail(groups), orm)

generateRoutesAndControllersFromSpec(st, doc, orm) ==
  IF doc.paths = <<>> THEN say(st, Msg("info", "No paths found. Skipping route/controller creation.", ""))
  ELSE ResourcesLoop(st, doc, GroupPaths(<<>>, doc.paths), orm)

(***************************************************************************)
(* State.  Each variable belongs to one part of the program; a            *)
(* specification below moves the variables of its part and leaves the      *)
(* others at their idle values.                                            *)
(***************************************************************************)
VARIABLES
  cls,   \* one classifier call: its arguments and its result ("" before the call)
  typ,   \* one schema property and the field types the two mappers gave it
  fs,    \* the project directory: path -> text of every file in it
  out,   \* the messages the last command printed
  run,   \* the last command: its type, name, option and exit code, the count of
         \* commands, and whether it repeated the command before it
  gen    \* init from an OpenAPI document: the step it is at, the parsed
         \* document, the ORM answered and the exit code

vars == <<cls, typ, fs, out, run, gen>>

projVars == <<fs, out, run, gen>>

IdleCls == [operationId |-> "", httpMethod |-> "", route |-> "", kind |-> ""]

IdleTyp == [type |-> "", format |-> "", mongoose |-> "", prisma |-> ""]

IdleRun == [type |-> "", name |-> "", connection |-> "", exit |-> 0, n |-> 0, again |-> FALSE]

NoDoc == [schemas |-> <<>>, paths |-> <<>>]

IdleGen == [pc |-> "main", doc |-> NoDoc, orm |-> "", exit |-> 0]

IdleProj == fs = NoFiles /\ out = <<>> /\ run = IdleRun /\ gen = IdleGen

(***************************************************************************)
(* The classifier's inputs: operationIds built from words, the HTTP        *)
(* methods of an OpenAPI path item, routes with and without a parameter.   *)
(***************************************************************************)
MaxWords == 3

FirstWords ==
  {"create", "add", "store", "update", "patch", "edit", "delete", "remove", "destroy",
   "get", "find", "show", "retrieve", "list", "index", "search", "Get", "product"}

LaterWords == {"ById", "One", "Search", "Product", "List", "All"}

RECURSIVE WordTails(_)
WordTails(n) ==
  IF n = 0 THEN {""}
  ELSE {""} \cup {w \o t : w \in LaterWords, t \in WordTails(n - 1)}

ExampleIds ==
  {"updateWidget", "addOne", "getProductById", "findAll", "productSearch",
   "listProducts", "createProduct"}

\* "" is an operation without operationId.
OperationIds ==
  {""} \cup ExampleIds \cup {f \o t : f \in FirstWords, t \in WordTails(MaxWords - 1)}

HttpMethods == {"get", "post", "put", "patch", "delete", "options"}

Routes == {"/products", "/widgets/{id}"}

InitClassify ==
  /\ cls \in {[IdleCls EXCEPT !.operationId = id] : id \in OperationIds}
  /\ typ = IdleTyp
  /\ IdleProj

\* One call identifyCrudType(operationId, method, route).
Classify ==
  /\ cls.kind = ""
  /\ \E m \in HttpMethods : \E r \in Routes :
       cls' = [cls EXCEPT !.httpMethod = m, !.route = r,
                          !.kind = identifyCrudType(cls.operationId, m, r)]
  /\ UNCHANGED <<typ, projVars>>

NextClassify == Classify

SpecClassify == InitClassify /\ [][NextClassify]_vars

(***************************************************************************)
(* The claims about the classifier.  The naming rules are stated here as   *)
(* the rule list words them: rule 2 Create, 3 Replace, 4 Delete,           *)
(* 5 Retrieve, 6 List (as a prefix, like rules 2-5).                       *)
(***************************************************************************)
RuleMatches(k, id) ==
  CASE k = 2 -> PrefixI(id, {"create", "add", "store"})
    [] k = 3 -> PrefixI(id, {"update", "patch", "edit"})
    [] k = 4 -> PrefixI(id, {"delete", "remove", "destroy"})
    [] k = 5 -> /\ PrefixI(id, {"get", "find", "show", "retrieve"})
                /\ \E q \in {"byid", "one"} : endsWith(toLowerCase(id), q)
    [] k = 6 -> PrefixI(id, {"list", "get", "find", "index", "search"})

MatchedRules(id) == IF id = "" THEN {} ELSE {k \in 2..6 : RuleMatches(k, id)}

RuleKind(k) ==
  CASE k = 2 -> "store" [] k = 3 -> "update" [] k = 4 -> "destroy"
    [] k = 5 -> "show" [] k = 6 -> "index"

Classified == cls.kind # ""

\* The table of the structural fallback, as the claim words it.
FallbackKind(m, hasParam) ==
  CASE m = "get" /\ ~hasParam -> "index"
    [] m = "post" /\ ~hasParam -> "store"
    [] m = "get" /\ hasParam -> "show"
    [] m \in {"put", "patch"} -> "update"
    [] m = "delete" -> "destroy"
    [] OTHER -> "custom"

C2_EarliestRuleWins ==
  (Classified /\ MatchedRules(cls.operationId) # {}) =>
    cls.kind = RuleKind(MinOf(MatchedRules(cls.operationId)))

C2_Witness ==
  /\ cls.operationId = "getProductById" /\ cls.kind = "show"
  /\ MatchedRules(cls.operationId) = {5, 6}

ListWords == {"list", "get", "find", "index", "search"}

ContainsListWord(id) == \E w \in ListWords : includes(toLowerCase(id), w)

NoRule2to5(id) == id # "" /\ MatchedRules(id) \cap (2..5) = {}

\* C3 as stated: an operationId that contains list, get, find, index or search
\* at any position and matches none of the rules 2-5 is classified List.
C3_AnyPositionIsList ==
  (Classified /\ NoRule2to5(cls.operationId) /\ ContainsListWord(cls.operationId)) =>
    cls.kind = "index"

\* C3 as amended: the List rule is a prefix rule.  An operationId that begins
\* with list, get, find, index or search and matches none of the rules 2-5 is
\* List; one that holds such a word only further in (and matches no rule 2-5)
\* is classified by the HTTP-method fallback.
C3_PrefixIsList ==
  (Classified /\ NoRule2to5(cls.operationId)) =>
    /\ PrefixI(cls.operationId, ListWords) => cls.kind = "index"
    /\ (~PrefixI(cls.operationId, ListWords) /\ ContainsListWord(cls.operationId)) =>
         cls.kind = FallbackKind(cls.httpMethod, includes(cls.route, "{"))

C3_Witness ==
  /\ cls.operationId = "productSearch" /\ cls.httpMethod = "post"
  /\ cls.route = "/products" /\ cls.kind = "store"

\* C4: without operationId the result is custom; with an operationId that
\* matches no naming rule the result is the fallback table's entry for
\* (method, route contains "{").
C4_Fallback ==
  Classified =>
    /\ cls.operationId = "" => cls.kind = "custom"
    /\ (cls.operationId # "" /\ MatchedRules(cls.operationId) = {}) =>
         cls.kind = FallbackKind(cls.httpMethod, includes(cls.route, "{"))

C4_Witness ==
  /\ cls.operationId = "productAll" /\ cls.httpMethod = "post"
  /\ cls.route = "/widgets/{id}" /\ cls.kind = "custom"

(***************************************************************************)
(* The type mappers applied to one schema property.                        *)
(***************************************************************************)
PropTypes == {"string", "integer", "number", "boolean", "array", "object", "null", "file", ""}

PropFormats == {"", "date-time", "date", "email", "int32", "double"}

InitTypes ==
  /\ typ \in {[IdleTyp EXCEPT !.type = t, !.format = f] : t \in PropTypes, f \in PropFormats}
  /\ cls = IdleCls
  /\ IdleProj

MapMongoose ==
  /\ typ.mongoose = ""
  /\ typ' = [typ EXCEPT !.mongoose = openApiTypeToMongooseType(typ.type)]
  /\ UNCHANGED <<cls, projVars>>

MapPrisma ==
  /\ typ.prisma = ""
  /\ typ' = [typ EXCEPT !.prisma = openApiTypeToPrismaType([type |-> typ.type, format |-> typ.format])]
  /\ UNCHANGED <<cls, projVars>>

NextTypes == MapMongoose \/ MapPrisma

SpecTypes == InitTypes /\ [][NextTypes]_vars

\* The two tables as the claim words them.
DocumentFieldType(t) ==
  CASE t = "string" -> "String"
    [] t \in {"integer", "number"} -> "Number"
    [] t = "boolean" -> "Boolean"
    [] t = "array" -> "[Schema.Types.Mixed]"
    [] t = "object" -> "Schema.Types.Mixed"
    [] OTHER -> "String"

RelationalFieldType(t, f) ==
  CASE t = "string" /\ f = "date-time" -> "DateTime"
    [] t = "string" /\ f # "date-time" -> "String"
    [] t = "integer" -> "Int"
    [] t = "number" -> "Float"
    [] t = "boolean" -> "Boolean"
    [] OTHER -> "Json"

\* C5: the document mapper and the relational mapper give every property
\* (type, format) the field type of their table; a string with format
\* date-time is relational DateTime and document String.
C5_TypeTables ==
  /\ typ.mongoose # "" => typ.mongoose = DocumentFieldType(typ.type)
  /\ typ.prisma # "" => typ.prisma = RelationalFieldType(typ.type, typ.format)

C5_Witness ==
  /\ typ.type = "string" /\ typ.format = "date-time"
  /\ typ.mongoose = "String" /\ typ.prisma = "DateTime"

(***************************************************************************)
(* make:* commands run in an initialized project.  The project is the      *)
(* directory init leaves (either ORM); its router is the one init wrote or *)
(* one edited by hand that lost the hook line.                             *)
(***************************************************************************)
MaxCmds == 2

StartSt == [fs |-> NoFiles, out |-> <<>>, exit |-> 0, fault |-> 0]

\* The files of init without OpenAPI document (initProject).
initProjectFiles(appName, orm) ==
  LET s0 == createProjectStructure(StartSt, orm)
      s1 == createCoreFiles(s0, appName, orm)
      s2 == createFile(s1, ".prettierrc", "{ \"semi\": true }")
      s3 == createFile(s2, ".prettierignore", "node_modules\n")
      s4 == createFile(s3, ".vscode/settings.json", "{ \"editor.formatOnSave\": true }")
      s5 == createFile(s4, appName \o ".postman_collection.json", "postman collection of " \o appName)
  IN IF s0.exit # 0 THEN s0.fs
     ELSE IF s1.exit # 0 THEN s1.fs
     ELSE IF s5.exit # 0 THEN s5.fs
     ELSE scaffoldAuth(s5, orm).fs

WithoutHook(files) ==
  [q \in DOMAIN files |-> IF q = MainRouter THEN replaceFirst(files[q], Hook, "") ELSE files[q]]

Orms == {"mongoose", "prisma"}

RawNames == {"orders", "Product", "OrderItem", "ProductController", "@@"}

Connections == {"", "analytics"}

\* A directory that is not a project: it is empty, or it holds the files of
\* a project without the config file.
WithoutConfig(files) == [q \in DOMAIN files \ {ConfigPath} |-> files[q]]

InitMake ==
  /\ \/ \E orm \in Orms :
          fs \in {initProjectFiles("app", orm), WithoutHook(initProjectFiles("app", orm))}
     \/ fs \in {NoFiles, WithoutConfig(initProjectFiles("app", "mongoose"))}
  /\ out = <<>>
  /\ run = IdleRun
  /\ gen = IdleGen
  /\ cls = IdleCls
  /\ typ = IdleTyp

\* One handleMakeCommand(type, name, options) call of a make:<type> invocation.
Make(type, name, connection) ==
  /\ run.n < MaxCmds
  /\ \E st \in {handleMakeCommand([fs |-> fs, out |-> <<>>, exit |-> 0, fault |-> 0],
                                   type, name, "", connection)} :
        /\ fs' = st.fs
        /\ out' = st.out
        /\ run' = [type |-> type, name |-> name, connection |-> connection,
                   exit |-> st.exit, n |-> run.n + 1,
                   again |-> (run.type = type /\ run.name = name /\ run.connection = connection)]
  /\ UNCHANGED <<cls, typ, gen>>

MakeController == \E name \in RawNames : Make("controller", name, "")

MakeModel == \E name \in RawNames : \E c \in Connections : Make("model", name, c)

MakeRoute == \E name \in RawNames : Make("route", name, "")

MakeResource == \E name \in RawNames : \E c \in Connections : Make("resource", name, c)

UpdateArgs == {<<"resource", "Auth.ping">>, <<"resource", "Product.archive">>,
               <<"resource", "Product">>, <<"controller", "Auth.ping">>}

\* One update:<feature> <resourceArg> invocation.
Update ==
  /\ run.n < MaxCmds
  /\ \E a \in UpdateArgs :
       \E st \in {mainUpdate([fs |-> fs, out |-> <<>>, exit |-> 0, fault |-> 0], a[1], a[2])} :
          /\ fs' = st.fs
          /\ out' = st.out
          /\ run' = [type |-> "update:" \o a[1], name |-> a[2], connection |-> "",
                     exit |-> st.exit, n |-> run.n + 1,
                     again |-> (run.type = "update:" \o a[1] /\ run.name = a[2])]
  /\ UNCHANGED <<cls, typ, gen>>

NextMake == MakeController \/ MakeModel \/ MakeRoute \/ MakeResource \/ Update

SpecMake == InitMake /\ [][NextMake]_vars

\* The paths and names the last command reported with a message of one kind.
Reported(o, kind) == {o[i].arg : i \in {j \in DOMAIN o : o[j].kind = kind}}

\* A step that runs the command of the step before it once more.
Rerun == run'.n = run.n + 1 /\ run'.again

InDir(path, dir) == startsWith(path, dir)

\* The files a command wrote or found in place: its targets.
Targets(o) == Reported(o, "created") \cup Reported(o, "skipped")

\* "app/controllers/X.js" as the route file requires it: '../controllers/X'.
RequireOf(path) == "require('../" \o SubSeq(path, 5, Len(path) - 3) \o "')"

\* C8 as stated: the route file a make:resource command writes imports the
\* controller file and the validator file of the same command.
C8_RouteImportsWrittenFiles ==
  (run.type = "resource" /\ run.exit = 0) =>
    \A r \in {q \in Reported(out, "created") : InDir(q, "app/routes/")} :
      /\ \E c \in {q \in Targets(out) : InDir(q, "app/controllers/")} : includes(fs[r], RequireOf(c))
      /\ \E v \in {q \in Targets(out) : InDir(q, "app/validators/")} : includes(fs[r], RequireOf(v))

\* C10 as stated: a make:* command run a second time with the same arguments
\* leaves every file as the first run left it and reports every file the
\* first run created as skipped.
C10_SecondRunChangesNothing ==
  [][Rerun => (fs' = fs /\ Reported(out, "created") \subseteq Reported(out', "skipped"))]_vars

Range(o) == {o[i] : i \in DOMAIN o}

\* The registrar calls a command made: <<resourceName, routeFileName>>.
RegCalls(o) ==
  {<<o[i].arg, o[i].file>> : i \in {j \in DOMAIN o : o[j].kind \in {"registered", "already", "manual"}}}

\* C9 as stated: a second registration with the same resource name and route
\* file leaves the router file as the first left it and reports 'already
\* registered', with or without the hook line.
C9_SecondCallReportsAlready ==
  [][Rerun =>
       \A c \in RegCalls(out) :
         /\ fs'[MainRouter] = fs[MainRouter]
         /\ MsgAlready(c[1], c[2]) \in Range(out')]_vars

\* C9 as amended: the second registration leaves the router file as the first
\* left it, for every router content; it reports 'already registered' exactly
\* when that content holds the import line, which it does whenever the hook
\* line is present.
C9_SecondCallChangesNothing ==
  [][Rerun =>
       \A c \in RegCalls(out) :
         /\ fs'[MainRouter] = fs[MainRouter]
         /\ MsgAlready(c[1], c[2]) \in Range(out') <=> includes(fs[MainRouter], RouteImport(c[1], c[2]))
         /\ includes(fs[MainRouter], Hook) => MsgAlready(c[1], c[2]) \in Range(out')]_vars

C9_Witness ==
  /\ run.again /\ run.type = "route" /\ run.name = "orders"
  /\ MsgAlready("orders", "ordersRoutes.js") \in Range(out)
  /\ includes(fs[MainRouter], Hook)
  /\ Cardinality(Occurrences(fs[MainRouter], RouteImport("orders", "ordersRoutes.js"))) = 1

(***************************************************************************)
(* init <openapi-file>: the steps of main and initFromOpenAPI in order.    *)
(* The file is missing or present, parses or fails to parse; the answers   *)
(* to the prompt are the ORM and a name whose directory exists or not.     *)
(***************************************************************************)
Prop(name, type, format) == [name |-> name, type |-> type, format |-> format]

Schema(name, type, hasProps, props, required) ==
  [name |-> name, type |-> type, hasProps |-> hasProps, props |-> props, required |-> required]

Op(method, operationId, tags, summary) ==
  [method |-> method, operationId |-> operationId, tags |-> tags, summary |-> summary]

PathItem(route, ops) == [route |-> route, ops |-> ops]

ProductSchema ==
  Schema("Product", "object", TRUE,
         <<Prop("name", "string", ""), Prop("price", "number", "")>>, {"name"})

ProductDoc ==
  [schemas |-> <<ProductSchema>>,
   paths |-> <<PathItem("/products", <<Op("get", "listProducts", <<>>, ""),
                                       Op("post", "createProduct", <<>>, "")>>),
               PathItem("/products/{id}", <<Op("get", "getProductById", <<>>, "")>>)>>]

OrderItemSchema ==
  Schema("OrderItem", "object", TRUE,
         <<Prop("sku", "string", ""), Prop("qty", "integer", ""), Prop("id", "integer", "")>>,
         {"sku"})

OrderItemsDoc ==
  [schemas |-> <<OrderItemSchema>>,
   paths |-> <<PathItem("/orderItems", <<Op("get", "listOrderItems", <<"OrderItems">>, "List the items"),
                                         Op("post", "createOrderItem", <<"OrderItems">>, "")>>),
               PathItem("/orderItems/{id}", <<Op("put", "updateOrderItem", <<>>, ""),
                                              Op("delete", "removeOrderItem", <<>>, "")>>)>>]

\* A group with a schema next to a group without one.
WidgetsDoc ==
  [schemas |-> <<ProductSchema>>,
   paths |-> <<PathItem("/widgets", <<Op("get", "listWidgets", <<>>, ""),
                                      Op("post", "createWidget", <<>>, "")>>),
               PathItem("/products", <<Op("post", "createProduct", <<>>, "")>>)>>]

\* A schema without properties, and a schema that is not an object.
GadgetDoc ==
  [schemas |-> <<Schema("Gadget", "object", FALSE, <<>>, {}),
                 Schema("Code", "string", FALSE, <<>>, {})>>,
   paths |-> <<PathItem("/gadgets", <<Op("post", "createGadget", <<>>, ""),
                                      Op("patch", "editGadget", <<>>, "")>>)>>]

\* An operation without operationId, and a path whose first segment has
\* no letter or digit.
AnonymousDoc ==
  [schemas |-> <<>>,
   paths |-> <<PathItem("/reports", <<Op("get", "", <<>>, "All reports"),
                                      Op("post", "sendReport", <<>>, ""),
                                      Op("options", "pingReports", <<>>, "")>>),
               PathItem("/--", <<Op("get", "listDashes", <<>>, "")>>)>>]

\* Paths of two versions brought together by their tag.
TaggedDoc ==
  [schemas |-> <<Schema("Item", "object", TRUE, <<Prop("email", "string", "email")>>, {})>>,
   paths |-> <<PathItem("/v1/items", <<Op("get", "listItemsV1", <<"Items">>, "")>>),
               PathItem("/v2/items", <<Op("post", "createItemV2", <<"Items">>, "")>>),
               PathItem("/v2/items/{id}", <<Op("delete", "removeItemV2", <<"Items">>, "")>>)>>]

SchemasOnlyDoc == [schemas |-> <<ProductSchema, OrderItemSchema>>, paths |-> <<>>]

\* Schemas and a resource with the names the authentication files use.
AuthDoc ==
  [schemas |-> <<Schema("UserProfile", "object", TRUE, <<Prop("bio", "string", "")>>, {}),
                 Schema("User", "object", TRUE, <<Prop("email", "string", "email")>>, {})>>,
   paths |-> <<PathItem("/auth/login", <<Op("post", "login", <<>>, "")>>)>>]

\* A schema whose name only starts like the authentication model's.
ProfilesDoc ==
  [schemas |-> <<Schema("UserProfile", "object", TRUE, <<Prop("bio", "string", "")>>, {})>>,
   paths |-> <<>>]

\* Two groups, Products and Product.
PluralsDoc ==
  [schemas |-> <<>>,
   paths |-> <<PathItem("/products", <<Op("get", "listProducts", <<>>, "")>>),
               PathItem("/product/{id}", <<Op("get", "getProduct", <<>>, "")>>)>>]

Docs == {ProductDoc, OrderItemsDoc, WidgetsDoc, GadgetDoc, AnonymousDoc, TaggedDoc,
         SchemasOnlyDoc, AuthDoc, ProfilesDoc, PluralsDoc, NoDoc}

AppName == "app"

Here == [fs |-> fs, out |-> out, exit |-> 0, fault |-> 0]

\* The file system refuses at most one write of a step, one of its first
\* MaxFault writes.
MaxFault == 3

Faulty == {[Here EXCEPT !.fault = f] : f \in 0..MaxFault}

\* The step at pc runs to its end: the files and messages it leaves, and
\* the next step, or the end of the process when it exits.
Step(st, next) ==
  /\ fs' = st.fs
  /\ out' = st.out
  /\ gen' = [gen EXCEPT !.pc = IF st.exit # 0 THEN "exit" ELSE next, !.exit = st.exit]
  /\ UNCHANGED <<cls, typ, run>>

InitGen ==
  /\ fs = NoFiles /\ out = <<>> /\ run = IdleRun /\ gen = IdleGen
  /\ cls = IdleCls /\ typ = IdleTyp

MainInit_goeson ==
  /\ gen.pc = "main"
  /\ \E present \in BOOLEAN :
       IF present THEN Step(say(Here, Msg("info", "Initializing project from OpenAPI spec", "")), "parse")
       ELSE Step(say(Here, Msg("error", "OpenAPI file not found", "")), "parse")

\* main, case "init" with a file argument.
MainInit ==
  /\ gen.pc = "main"
  /\ \E present \in BOOLEAN :
       IF present THEN Step(say(Here, Msg("info", "Initializing project from OpenAPI spec", "")), "parse")
       ELSE Step(exit1(say(Here, Msg("error", "OpenAPI file not found", ""))), "parse")

\* SwaggerParser.bundle of the file.
ParseDoc ==
  /\ gen.pc = "parse"
  /\ \/ \E d \in Docs :
          /\ fs' = fs
          /\ out' = Append(out, Msg("info", "OpenAPI specification parsed and validated successfully.", ""))
          /\ gen' = [gen EXCEPT !.pc = "prompt", !.doc = d]
          /\ UNCHANGED <<cls, typ, run>>
     \/ Step(exit1(say(Here, Msg("error", "Error parsing OpenAPI specification", ""))), "prompt")

\* The prompt and the check of the project directory.
Prompt ==
  /\ gen.pc = "prompt"
  /\ \E orm \in Orms : \E dirExists \in BOOLEAN :
       IF dirExists THEN Step(exit1(say(Here, Msg("error", "Directory already exists", AppName))), "core")
       ELSE /\ gen' = [gen EXCEPT !.pc = "core", !.orm = orm]
            /\ UNCHANGED <<cls, typ, run, fs, out>>

CoreFiles ==
  /\ gen.pc = "core"
  /\ \E st \in Faulty :
       Step(createCoreFiles(createProjectStructure(st, gen.orm), AppName, gen.orm), "models")

GenModels ==
  /\ gen.pc = "models"
  /\ \E st \in Faulty : Step(generateModelsFromSpec(st, gen.doc, gen.orm), "routes")

GenRoutes ==
  /\ gen.pc = "routes"
  /\ \E st \in Faulty : Step(generateRoutesAndControllersFromSpec(st, gen.doc, gen.orm), "auth")

ScaffoldAuth ==
  /\ gen.pc = "auth"
  /\ \E st \in Faulty : Step(scaffoldAuth(st, gen.orm), "install")

\* npm install (and prisma generate) succeeds or fails.
InstallDependencies ==
  /\ gen.pc = "install"
  /\ \E ok \in BOOLEAN :
       IF ok THEN Step(say(Here, Msg("info", "Dependencies installed successfully.", "")), "start")
       ELSE Step(exit1(say(Here, Msg("error", "Failed to install dependencies.", ""))), "start")

StartDevServer ==
  gen.pc = "start" /\ Step(say(Here, Msg("info", "Project initialized successfully!", "")), "done")

NextGen ==
  \/ MainInit \/ ParseDoc \/ Prompt \/ CoreFiles \/ GenModels \/ GenRoutes
  \/ ScaffoldAuth \/ InstallDependencies \/ StartDevServer

SpecGen == InitGen /\ [][NextGen]_vars

(***************************************************************************)
(* What the generated files say.                                           *)
(***************************************************************************)
HasFile(path) == path \in DOMAIN fs

Count(text, sub) == Cardinality(Occurrences(text, sub))

\* The files are there once the generation steps have run.
Generated == gen.pc \in {"auth", "install", "start", "done"}

\* A write was refused: an exception ended the run, or the registrar caught
\* it and printed the manual instructions.
Refused(o) == \E k \in 1..Len(o) : o[k].kind \in {"uncaught", "manual"}

ProductModelFile ==
  getMongooseModelTemplate("Product", "default",
    "{\n    name: { type: String, required: true, trim: true },\n    price: { type: Number },\n  }")

ProductModelBlock ==
  "model Product {\n  id          Int      @id @default(autoincrement())\n  \n  name        String\n  price       Float?\n\n  createdAt   DateTime @default(now())\n  updatedAt   DateTime @updatedAt\n}"

MethodText(operationId, crudType, orm) ==
  "\n  async " \o operationId \o "(req, res, next) {\n    "
  \o getControllerMethodBody(crudType, "Product", orm) \o "\n  }\n"

\* C6: for the Product document (schema Product {name: string, required;
\* price: number}; GET /products listProducts, POST /products createProduct,
\* GET /products/{id} getProductById) init leaves a model with exactly the
\* fields name (required string) and price (optional number), one controller
\* with three methods whose bodies are the List, Create and Retrieve
\* templates in this order, a route file with exactly three entries of which
\* only the createProduct entry carries the validator middleware, and one
\* router registration for 'product'.
C6_ProductScenario ==
  (Generated /\ gen.doc = ProductDoc /\ ~Refused(out)) =>
    /\ IF gen.orm = "mongoose"
       THEN HasFile("app/models/Product.js") /\ fs["app/models/Product.js"] = ProductModelFile
       ELSE HasFile(PrismaSchema) /\ Count(fs[PrismaSchema], ProductModelBlock) = 1
            /\ Count(fs[PrismaSchema], "model Product ") = 1
    /\ HasFile("app/controllers/ProductController.js")
    /\ LET c == fs["app/controllers/ProductController.js"]
           list == Occurrences(c, MethodText("listProducts", "index", gen.orm))
           create == Occurrences(c, MethodText("createProduct", "store", gen.orm))
           retrieve == Occurrences(c, MethodText("getProductById", "show", gen.orm))
       IN /\ Count(c, "\n  async ") = 3
          /\ Cardinality(list) = 1 /\ Cardinality(create) = 1 /\ Cardinality(retrieve) = 1
          /\ MinOf(list) < MinOf(create) /\ MinOf(create) < MinOf(retrieve)
    /\ HasFile("app/routes/productRoutes.js")
    /\ LET r == fs["app/routes/productRoutes.js"]
       IN /\ Count(r, "\nrouter.") = 3
          /\ Count(r, "\nrouter.get('/products', ProductController.listProducts);\n") = 1
          /\ Count(r, "\nrouter.post('/products', productValidator.store, ProductController.createProduct);\n") = 1
          /\ Count(r, "\nrouter.get('/products/:id', ProductController.getProductById);\n") = 1
          /\ Count(r, "productValidator.") = 1
    /\ RegCalls(out) = {<<"product", "productRoutes.js">>}
    /\ Count(fs[MainRouter], "const productRoutes = require('./productRoutes.js');\nrouter.use('/product', productRoutes);") = 1
    /\ Count(fs[MainRouter], "router.use(") = 2

C6_Witness ==
  /\ gen.pc = "done" /\ gen.doc = ProductDoc /\ gen.orm = "prisma"
  /\ Count(fs["app/routes/productRoutes.js"], "productValidator.store, ProductController.createProduct") = 1
  /\ Count(fs[PrismaSchema], "price       Float?") = 1

\* The identifier that ends right before the first occurrence of marker.
RECURSIVE AlnumSuffix(_)
AlnumSuffix(s) ==
  IF s = "" \/ ~IsAlnum(SubSeq(s, Len(s), Len(s))) THEN ""
  ELSE AlnumSuffix(SubSeq(s, 1, Len(s) - 1)) \o SubSeq(s, Len(s), Len(s))

IdentBefore(text, marker) ==
  IF ~includes(text, marker) THEN ""
  ELSE AlnumSuffix(SubSeq(text, 1, MinOf(Occurrences(text, marker)) - 1))

RouteFileOf(c) == "app/routes/" \o c[2]

ValidatorFileOf(c) ==
  "app/validators/" \o IdentBefore(fs[RouteFileOf(c)], "Validator');") \o "Validator.js"

ControllerFileOf(c) ==
  "app/controllers/" \o IdentBefore(fs[RouteFileOf(c)], "Controller = require(") \o "Controller.js"

\* The capitalized names the artifacts of one registered resource use: the
\* controller and the validator module the route file imports, and the class
\* the controller file declares.
CapitalizedNames(c) ==
  {IdentBefore(fs[RouteFileOf(c)], "Controller = require(")}
  \cup (IF includes(fs[RouteFileOf(c)], "Validator');")
        THEN {IdentBefore(fs[RouteFileOf(c)], "Validator');")} ELSE {})
  \cup (IF HasFile(ControllerFileOf(c))
        THEN {IdentBefore(fs[ControllerFileOf(c)], "Controller {")} ELSE {})

\* The lowercase names: the registration and the route file name, the
\* validator the route file binds, and the one the validator file declares
\* and exports.
LowercaseNames(c) ==
  {c[1], IdentBefore(c[2], "Routes.js")}
  \cup (IF includes(fs[RouteFileOf(c)], "Validator = require(")
        THEN {IdentBefore(fs[RouteFileOf(c)], "Validator = require(")} ELSE {})
  \cup (IF includes(fs[RouteFileOf(c)], "Validator');") /\ HasFile(ValidatorFileOf(c))
        THEN {IdentBefore(fs[ValidatorFileOf(c)], "Validator = {"),
              IdentBefore(fs[ValidatorFileOf(c)], "Validator;")}
        ELSE {})

\* C7: for every resource group init emits from a document, the validator,
\* the controller, the route file and the router registration use one single
\* capitalized name and one single lowercase name of the resource.
C7_OneNamePerResource ==
  Generated =>
    \A c \in RegCalls(out) :
      HasFile(RouteFileOf(c)) =>
        /\ Cardinality(CapitalizedNames(c)) = 1
        /\ Cardinality(LowercaseNames(c)) = 1

LoadFailed(o) ==
  \E k \in 1..Len(o) :
    o[k].kind = "error" /\ o[k].arg \in {"OpenAPI file not found", "Error parsing OpenAPI specification"}

\* C11: init <specFile>: when the path does not exist or the document fails
\* to load, the process exits non-zero and no directory and no file of the
\* project exists at that moment; no step before the end of the load (main,
\* parse, prompt) touches the project directory.
C11_LoadFailureWritesNothing ==
  /\ [](LoadFailed(out) => gen.exit # 0 /\ gen.pc = "exit" /\ fs = NoFiles)
  /\ [][gen.pc \in {"main", "parse", "prompt"} => fs' = fs /\ fs = NoFiles]_vars

C11_Witness ==
  /\ gen.pc = "exit" /\ gen.exit = 1 /\ fs = NoFiles
  /\ out[Len(out)] = Msg("error", "Error parsing OpenAPI specification", "")

\* The route files init generated from the document.
RouteFiles ==
  {f \in DOMAIN fs : InDir(f, "app/routes/") /\ endsWith(f, "Routes.js")
                     /\ f # "app/routes/authRoutes.js"}

\* The capitalized resource name a route file is about.
ResourceOf(f) == IdentBefore(fs[f], "Controller = require(")

HasModel(name) ==
  IF gen.orm = "mongoose" THEN HasFile("app/models/" \o name \o ".js")
  ELSE HasFile(PrismaSchema) /\ includes(fs[PrismaSchema], "model " \o name \o " {")

\* C12: for a resource group whose singular name has no schema in
\* components.schemas, init writes a placeholder model for the resource, a
\* route file without validator middleware, and records a warning; the
\* groups next to it are emitted as well (every group has its route file and
\* its controller).
C12_PlaceholderModel ==
  (Generated /\ ~Refused(out)) =>
    \A f \in RouteFiles :
      /\ HasFile("app/controllers/" \o ResourceOf(f) \o "Controller.js")
      /\ FindSchema(gen.doc, ResourceOf(f)) = <<>> =>
           /\ HasModel(ResourceOf(f))
           /\ ~includes(fs[f], "Validator.")
           /\ \E k \in 1..Len(out) : out[k].kind = "warning"

\* C13: a route file imports a validator and puts validator middleware on an
\* entry only if a validator file was written for the resource, and only on
\* entries of operations classified store (Create) or update (Replace).
C13_ValidatorOnlyWhenWritten ==
  (Generated /\ ~Refused(out)) =>
    \A f \in RouteFiles :
      /\ \A kind \in CrudKinds \ {"store", "update"} : ~includes(fs[f], "Validator." \o kind \o ", ")
      /\ (includes(fs[f], "Validator = require(") \/ includes(fs[f], "Validator."))
           => HasFile("app/validators/" \o IdentBefore(fs[f], "Validator');") \o "Validator.js")

Grouped(p) == stripNonAlnum(SecondPiece(p.route)) # ""

Ops(p) == {p.ops[k] : k \in 1..Len(p.ops)}

EntryOf(p, op) == "\nrouter." \o op.method \o "('" \o expressRouteOf(p.route) \o "', "

\* C14: every operation of every path of a resource group, with or without
\* operationId, has exactly one route entry in one route file, wired to a
\* method of that file's controller; the method of an operation classified
\* custom has the 501 'Not Implemented' stub as its body.
C14_EveryOperationEmitted ==
  (Generated /\ ~Refused(out)) =>
    \A p \in Range(gen.doc.paths) : \A op \in Ops(p) :
      Grouped(p) =>
        \E f \in RouteFiles :
          LET c == "app/controllers/" \o ResourceOf(f) \o "Controller.js"
              entries == Occurrences(fs[f], EntryOf(p, op))
          IN /\ Cardinality(entries) = 1
             /\ HasFile(c)
             /\ op.operationId # "" =>
                  /\ includes(fs[f], EntryOf(p, op) \o ResourceOf(f) \o "Controller." \o op.operationId \o ");")
                     \/ includes(fs[f], "Validator." \o identifyCrudType(op.operationId, op.method, p.route)
                                        \o ", " \o ResourceOf(f) \o "Controller." \o op.operationId \o ");")
                  /\ Count(fs[c], "\n  async " \o op.operationId \o "(req, res, next) {") = 1
                  /\ identifyCrudType(op.operationId, op.method, p.route) = "custom" =>
                       includes(fs[c], "async " \o op.operationId \o "(req, res, next) {\n    " \o CustomBody)

FirstOpTag(p) == IF p.ops = <<>> \/ Head(p.ops).tags = <<>> THEN "" ELSE Head(p.ops).tags[1]

HasEntries(f, p) == \A op \in Ops(p) : op.operationId # "" => includes(fs[f], EntryOf(p, op))

\* C15: the tags[0] of the first operation of a path, whatever its method,
\* names the resource of the path: two paths with the same such tag have
\* their entries in the same route file, also when their first segments
\* differ; a path without tag is grouped by its first segment.
C15_FirstTagNamesGroup ==
  (Generated /\ ~Refused(out)) =>
    \A p, q \in Range(gen.doc.paths) :
      (Grouped(p) /\ Grouped(q) /\ FirstOpTag(p) # "" /\ FirstOpTag(p) = FirstOpTag(q)) =>
        \E f \in RouteFiles : HasEntries(f, p) /\ HasEntries(f, q)

\* C16: a path whose first segment has no letter or digit is in no resource
\* group (no route file has an entry of it), a message is printed for it, and
\* the other paths of the document are emitted.
C16_SkippedPathWarned ==
  (Generated /\ ~Refused(out)) =>
    \A p \in Range(gen.doc.paths) :
      IF Grouped(p) THEN \E f \in RouteFiles : HasEntries(f, p)
      ELSE /\ \A f \in RouteFiles : \A op \in Ops(p) : ~includes(fs[f], EntryOf(p, op))
           /\ \E k \in 1..Len(out) : includes(out[k].arg, p.route)

\* C17: when the router file exists without the hook line, a registerRoute
\* call ends in the error outcome with the manual-edit instructions, never in
\* the success outcome 'Automatically registered', and leaves the router
\* file content as it was.
C17_MissingHookIsError ==
  [][(HasFile(MainRouter) /\ ~includes(fs[MainRouter], Hook)) =>
       \A c \in RegCalls(out') :
         /\ MsgManual(c[1], c[2]) \in Range(out')
         /\ MsgRegistered(c[1], c[2]) \notin Range(out')
         /\ fs'[MainRouter] = fs[MainRouter]]_vars

\* C20: every make:* and every update:* invocation in a directory without
\* expresso.json ends with a non-zero exit code and the 'not run from the
\* project root' error and creates or changes no file.
C20_NoConfigIsFatal ==
  [][~HasFile(ConfigPath) =>
       /\ run'.exit # 0
       /\ MsgNotRoot \in Range(out')
       /\ fs' = fs]_vars

\* An error is raised in the step taken: a write the file system refuses,
\* thrown to the caller or caught by the registrar.
Raises == Refused(out') /\ ~Refused(out)

\* C18: an error raised during model generation or route and controller
\* generation ends the run there, so that dependency installation and the
\* final start step never begin after it.
C18_GenerationErrorEndsRun ==
  [][(gen.pc \in {"models", "routes"} /\ Raises) => gen'.pc = "exit" /\ gen'.exit # 0]_vars

\* The file holds exactly this content.
Holds(path, content) == HasFile(path) /\ fs[path] = content

\* C19: at the end of every successful init the authentication files hold
\* the fixed template content (the controller, the routes, the middleware,
\* the validator) and the authentication User model is there (the model
\* file with mongoose, exactly one 'model User' block in the schema with
\* prisma), whatever the document defines.
C19_AuthArtifactsFixed ==
  (gen.pc = "done" /\ gen.exit = 0) =>
    /\ Holds("app/controllers/AuthController.js", AuthControllerText(gen.orm))
    /\ Holds("app/routes/authRoutes.js", "authRoutes template")
    /\ Holds("app/middleware/authMiddleware.js", "authMiddleware template")
    /\ Holds("app/validators/authValidator.js", "authValidator template")
    /\ IF gen.orm = "mongoose" THEN Holds("app/models/User.js", AuthUserModelText)
       ELSE /\ HasFile(PrismaSchema)
            /\ includes(fs[PrismaSchema], getPrismaUserModelTemplate)
            /\ Cardinality(Occurrences(fs[PrismaSchema], "model User {")) = 1

(***************************************************************************)
(* update:resource.                                                        *)
(***************************************************************************)
\* An update:resource invocation has just run, with this argument.
Updated == run'.n = run.n + 1 /\ run'.type = "update:resource"

NameOf(arg) == SubSeq(arg, 1, MinOf(Occurrences(arg, ".")) - 1)

MethodOf(arg) ==
  LET rest == SubSeq(arg, Len(NameOf(arg)) + 2, Len(arg))
  IN IF includes(rest, ".") THEN SubSeq(rest, 1, MinOf(Occurrences(rest, ".")) - 1) ELSE rest

TargetController(arg) == "app/controllers/" \o UpperFirst(NameOf(arg)) \o "Controller.js"

TargetRoute(arg) == "app/routes/" \o toLowerCase(NameOf(arg)) \o "Routes.js"

\* C21: update:resource ends with a non-zero exit code when its argument
\* is not of the form Name.method, when the controller file of Name does
\* not exist and when the route file of Name does not exist.
C21_UpdateFailsNonZero ==
  [][(Updated /\ (~includes(run'.name, ".")
                  \/ ~HasFile(TargetController(run'.name))
                  \/ ~HasFile(TargetRoute(run'.name))))
       => run'.exit # 0]_vars

\* The last position at or before i where the text holds a closing brace
\* (0 if there is none).
RECURSIVE LastBrace(_, _)
LastBrace(text, i) ==
  IF i < 1 THEN 0 ELSE IF SubSeq(text, i, i) = "}" THEN i ELSE LastBrace(text, i - 1)

\* The text put into old at position k to give new ("" if new is not old
\* with one insertion there).
InsertedAt(old, new, k) ==
  IF /\ Len(new) > Len(old)
     /\ SubSeq(new, 1, k - 1) = SubSeq(old, 1, k - 1)
     /\ SubSeq(new, k + Len(new) - Len(old), Len(new)) = SubSeq(old, k, Len(old))
  THEN SubSeq(new, k, k + Len(new) - Len(old) - 1)
  ELSE ""

\* One stub method of this name, answering 501.
IsStub(text, method) ==
  /\ startsWith(text, "\n  async " \o method \o "(req, res, next) {")
  /\ Count(text, "async ") = 1
  /\ Count(text, "res.status(501)") = 1
  /\ endsWith(text, "}\n")

\* One route line of the method, on a line of its own.
IsRouteLine(text, name, method) ==
  /\ endsWith(text, "\nrouter.get('/" \o toLowerCase(method) \o "', "
                    \o UpperFirst(name) \o "Controller." \o method \o ");")
  /\ Count(text, "router.") = 1

\* C28: update:resource Name.method changes files only when the controller
\* file and the route file of Name both exist.  If one is missing no file
\* changes.  If both exist, one stub method answering 501 is inserted in
\* the controller before its last closing brace, one route line of the
\* method is appended to the route file, and no other file changes.
C28_UpdateFrame ==
  [][(Updated /\ includes(run'.name, ".")) =>
       IF ~HasFile(TargetController(run'.name)) \/ ~HasFile(TargetRoute(run'.name)) THEN fs' = fs
       ELSE /\ DOMAIN fs' = DOMAIN fs
            /\ \A q \in DOMAIN fs :
                 CASE q = TargetController(run'.name) ->
                        /\ LastBrace(fs[q], Len(fs[q])) > 0
                        /\ \E text \in {InsertedAt(fs[q], fs'[q], LastBrace(fs[q], Len(fs[q])))} :
                             IsStub(text, MethodOf(run'.name))
                   [] q = TargetRoute(run'.name) ->
                        \E text \in {InsertedAt(fs[q], fs'[q], Len(fs[q]) + 1)} :
                          IsRouteLine(text, NameOf(run'.name), MethodOf(run'.name))
                   [] OTHER -> fs'[q] = fs[q]]_vars

\* Both files exist and the method and the route were added.
C28_Witness ==
  /\ run.type = "update:resource" /\ run.name = "Product.archive" /\ run.exit = 0
  /\ HasFile("app/controllers/ProductController.js")
  /\ includes(fs["app/controllers/ProductController.js"], "async archive(req, res, next) {")
  /\ HasFile("app/routes/productRoutes.js")
  /\ endsWith(fs["app/routes/productRoutes.js"], "router.get('/archive', ProductController.archive);")

(***************************************************************************)
(* make:* against the documented calls.                                    *)
(***************************************************************************)
\* A make:<type> call has just run to its end in a project directory.
Made(type) ==
  /\ run'.n = run.n + 1 /\ run'.type = type /\ run'.exit = 0
  /\ HasFile(ConfigPath)

Mongoose == HasFile(ConfigPath) /\ includes(fs[ConfigPath], "\"mongoose\"")

\* Names made of letters and digits only, first letter in upper case.
PlainNames == {"Product", "OrderItem", "ProductController"}

\* C24: make:controller with a name that ends in 'Controller' targets the
\* controller file of that very name and the validator file of the name
\* without the suffix: the file name carries 'Controller' once.
C24_ControllerSuffixOnce ==
  [][(Made("controller") /\ run'.name \in PlainNames /\ endsWith(run'.name, "Controller")) =>
       Targets(out') = {"app/controllers/" \o run'.name \o ".js",
                        "app/validators/"
                          \o SubSeq(run'.name, 1, Len(run'.name) - Len("Controller"))
                          \o "Validator.js"}]_vars

\* C25: the model file make:resource --connection=<c> writes is bound to
\* connection <c>, and to 'default' only when the option is absent.
C25_ResourceConnection ==
  [][(Made("resource") /\ Mongoose /\ run'.name \in PlainNames
        /\ ("app/models/" \o run'.name \o ".js") \in Reported(out', "created")) =>
       includes(fs'["app/models/" \o run'.name \o ".js"],
                "getConnection('"
                  \o (IF run'.connection = "" THEN "default" ELSE run'.connection) \o "')")]_vars

\* C26: after make:resource Product the main router mounts the routes of
\* the resource under the plural path /products.
C26_PluralMount ==
  [][(Made("resource") /\ run'.name = "Product" /\ HasFile(MainRouter)
        /\ includes(fs[MainRouter], Hook)) =>
       includes(fs'[MainRouter], "router.use('/products', ")]_vars

(***************************************************************************)
(* The resource groups of one generation run.                              *)
(***************************************************************************)
GroupsOf(doc) == Range(GroupPaths(<<>>, doc.paths))

\* Every path of the group has its entries in a route file.
Emitted(g) == \A p \in Range(g.paths) : \E f \in RouteFiles : HasEntries(f, p)

\* C23: an error raised while the files of one resource group are emitted
\* does not stop the emission of the other groups of the run: after it, at
\* most the one group is without its entries.
C23_GroupErrorIsolated ==
  [][(gen.pc = "routes" /\ Raises) =>
       Cardinality({g \in GroupsOf(gen.doc) : ~Emitted(g)'}) <= 1]_vars

\* The files generation has written, before the authentication files.
WrittenIn(dir, suffix) == {f \in DOMAIN fs : InDir(f, dir) /\ endsWith(f, suffix)}

\* C29: two resource groups of a run never share a controller file or a
\* route file: generation leaves as many route files and controllers as
\* there are groups, and every operation with an operationId of a grouped
\* path has its route entry in a route file.
C29_GroupsKeepTheirFiles ==
  (gen.pc = "auth" /\ ~Refused(out)) =>
    /\ Cardinality(WrittenIn("app/routes/", "Routes.js")) = Cardinality(GroupsOf(gen.doc))
    /\ Cardinality(WrittenIn("app/controllers/", "Controller.js")) = Cardinality(GroupsOf(gen.doc))
    /\ \A g \in GroupsOf(gen.doc) : \A p \in Range(g.paths) :
         \E f \in WrittenIn("app/routes/", "Routes.js") : HasEntries(f, p)

(***************************************************************************)
(* The main router after registrations.                                    *)
(***************************************************************************)
\* The names registered so far, and the one init registers itself.
RegisteredNames == Reported(out, "registered") \cup Reported(out, "already") \cup {"auth"}

\* The piece stands once in the text, before the hook line.
OnceBeforeHook(text, piece) ==
  /\ Count(text, piece) = 1
  /\ \A i \in Occurrences(text, piece) : \A h \in Occurrences(text, Hook) : i < h

\* C30: after any sequence of registrations on the router init wrote, the
\* router holds the hook line once, declares no <name>Routes identifier
\* twice, and holds for every registered name one import line and one
\* router.use line, before the hook.
C30_RouterWellFormed ==
  HasFile(MainRouter) =>
    /\ Count(fs[MainRouter], Hook) = 1
    /\ \A n \in RegisteredNames :
         /\ OnceBeforeHook(fs[MainRouter], "const " \o n \o "Routes = require(")
         /\ OnceBeforeHook(fs[MainRouter], "router.use('/" \o n \o "', " \o n \o "Routes);")

(***************************************************************************)
(* createFile on its own: calls with any path and content, in a directory  *)
(* that is empty or already holds one of the files.                        *)
(***************************************************************************)
MaxCalls == 3

FilePaths == {"server.js", "app/models/Product.js", "app/routes/index.js"}

Contents == {"one", "two"}

\* run.first: the content of the first call for each path called so far.
InitFiles ==
  /\ fs \in {NoFiles, createFile(StartSt, "app/routes/index.js", "zero").fs}
  /\ out = <<>>
  /\ run = [type |-> "", name |-> "", content |-> "", exit |-> 0, n |-> 0, first |-> NoFiles]
  /\ gen = IdleGen
  /\ cls = IdleCls
  /\ typ = IdleTyp

CreateFile ==
  /\ run.n < MaxCalls
  /\ \E filePath \in FilePaths : \E content \in Contents :
       LET st == createFile([fs |-> fs, out |-> <<>>, exit |-> 0, fault |-> 0], filePath, content)
       IN /\ fs' = st.fs
          /\ out' = st.out
          /\ run' = [type |-> "createFile", name |-> filePath, content |-> content,
                     exit |-> st.exit, n |-> run.n + 1,
                     first |-> IF filePath \in DOMAIN run.first \/ filePath \in DOMAIN fs
                               THEN run.first ELSE (filePath :> content) @@ run.first]
  /\ UNCHANGED <<cls, typ, gen>>

SpecFiles == InitFiles /\ [][CreateFile]_vars

\* C27: createFile leaves an existing target as it is and reports
\* 'Skipped'; it gives a missing target exactly the content passed and
\* leaves every other file alone; so every path called holds the content
\* of the first call for it.
C27_CreateIfAbsent ==
  /\ [][IF run'.name \in DOMAIN fs
        THEN fs' = fs /\ out' = <<Msg("skipped", run'.name, "")>>
        ELSE /\ fs'[run'.name] = run'.content
             /\ out' = <<Msg("created", run'.name, "")>>
             /\ \A q \in DOMAIN fs : fs'[q] = fs[q]]_vars
  /\ [](\A q \in DOMAIN run.first : fs[q] = run.first[q])

\* A second call for a path, with another content, was skipped.
C27_Witness ==
  /\ run.type = "createFile" /\ run.n >= 2
  /\ out = <<Msg("skipped", run.name, "")>>
  /\ run.name \in DOMAIN run.first
  /\ run.first[run.name] # run.content
  /\ fs[run.name] = run.first[run.name]

(***************************************************************************)
(* One make:<type> invocation with several names, in the directory init    *)
(* leaves (either ORM).                                                    *)
(***************************************************************************)
MaxNames == 3

MakeTypes == {"controller", "model", "route", "resource"}

SomeNames == {"Product", "orders", "@@"}

\* The lists of 0 to n names.
NameLists(n) == UNION {[1..k -> SomeNames] : k \in 0..n}

InitNames ==
  /\ \E orm \in Orms : fs = initProjectFiles("app", orm)
  /\ out = <<>>
  /\ run = [type |-> "", names |-> <<>>, exit |-> 0, n |-> 0]
  /\ gen = IdleGen
  /\ cls = IdleCls
  /\ typ = IdleTyp

MakeNames ==
  /\ run.n = 0
  /\ \E type \in MakeTypes : \E names \in NameLists(MaxNames) :
       LET st == mainMake([fs |-> fs, out |-> <<>>, exit |-> 0, fault |-> 0], type, names, "", "")
       IN /\ fs' = st.fs
          /\ out' = st.out
          /\ run' = [type |-> type, names |-> names, exit |-> st.exit, n |-> 1]
  /\ UNCHANGED <<cls, typ, gen>>

SpecNames == InitNames /\ [][MakeNames]_vars

\* The files make:<type> is to leave for a valid name.
ArtifactsOf(type, name) ==
  LET cap == UpperFirst(name)
      model == IF Mongoose THEN {"app/models/" \o cap \o ".js"} ELSE {}
      controller == {"app/controllers/" \o cap \o "Controller.js",
                     "app/validators/" \o cap \o "Validator.js"}
      route == {"app/routes/" \o toLowerCase(name) \o "Routes.js"}
  IN CASE type = "model" -> model
       [] type = "controller" -> controller
       [] type = "route" -> route
       [] type = "resource" -> model \cup controller \cup route

\* C22: in a make:<type> invocation with several names, a name without a
\* letter or digit is skipped with the invalid-name message, and every other
\* name of the invocation, before and after it, has its files (with prisma
\* its model block in the schema); the invocation ends with exit code 0.
C22_InvalidNameSkipped ==
  (run.n = 1 /\ run.names # <<>>) =>
    /\ run.exit = 0
    /\ \A i \in 1..Len(run.names) :
         IF stripNonAlnum(run.names[i]) = ""
         THEN MsgInvalidName(run.names[i]) \in Range(out)
         ELSE /\ ArtifactsOf(run.type, run.names[i]) \subseteq DOMAIN fs
              /\ (~Mongoose /\ run.type \in {"model", "resource"}) =>
                   includes(fs[PrismaSchema], "model " \o UpperFirst(run.names[i]) \o " {")

\* A name that is not valid between two names that got their files.
C22_Witness ==
  /\ run.n = 1 /\ run.type = "resource" /\ run.names = <<"Product", "@@", "orders">>
  /\ MsgInvalidName("@@") \in Range(out)
  /\ HasFile("app/controllers/ProductController.js")
  /\ HasFile("app/controllers/OrdersController.js")

====
